---- MODULE Spec2Model ----
(***************************************************************************)
(* Model of the BaseBall-Analytics batch pipeline:                         *)
(*   load_data_to_db.py   -> tables schedule, team_stats                   *)
(*   collect_betting_odds.py, load_odds_to_db.py -> table odds             *)
(*   feature_engineering.py -> table game_features                         *)
(*   train_baseline_model.py -> training set, model artifacts              *)
(* Floating-point columns are modelled as exact fractions <<num, den>>     *)
(* with den > 0 in lowest terms; <<0, 0>> stands for NaN / NULL.           *)
(***************************************************************************)
EXTENDS Integers, Sequences, FiniteSets

VARIABLES
    tables,         \* names of the tables that exist in baseball_analytics.db
    schedule,       \* rows of table schedule, in row order
    sched_cols,     \* column layout of schedule: "basic" (home/away, no scores) or "scores"
    team_stats,     \* rows of table team_stats, in row order
    odds_csv,       \* rows of the latest data/raw/odds/odds_*.csv, or {} when no file exists
    odds,           \* rows of table odds
    df_ml,          \* feature_engineering: moneyline rows with their imp_prob column
    game_features,  \* rows of table game_features, in row order
    features_csv,   \* data/processed/game_features.csv: whether it exists, and its rows
    train_data,     \* train_baseline_model: rows of X, y after dropna
    y_classes,      \* train_baseline_model: the classes present in y_train and in y_test
    artifacts,      \* files present under models/
    written,        \* train_baseline_model: the files the latest run wrote, in order
    error,          \* the call that raised in the latest run, and the table it names
    pc              \* stage of the pipeline

vars == <<tables, schedule, sched_cols, team_stats, odds_csv, odds, df_ml,
          game_features, features_csv, train_data, y_classes, artifacts, written,
          error, pc>>

(* ------------------------------ bounds -------------------------------- *)
MaxGames == 2
MaxMarkets == 2

(* --------------------------- exact fractions --------------------------- *)
NaN == <<0, 0>>

IsNaN(x) == x[2] = 0

Abs(n) == IF n < 0 THEN -n ELSE n

RECURSIVE GCD(_, _)
GCD(a, b) == IF b = 0 THEN a ELSE GCD(b, a % b)

\* n / d for d # 0, in lowest terms with a positive denominator
Frac(n, d) ==
    LET g == GCD(Abs(n), Abs(d))
        s == IF d < 0 THEN -1 ELSE 1
    IN  <<(s * n) \div g, (s * d) \div g>>

Whole(n) == <<n, 1>>

FracAdd(x, y) == Frac(x[1] * y[2] + y[1] * x[2], x[2] * y[2])

\* x > y on floats: false as soon as one side is NaN
FracGt(x, y) == ~IsNaN(x) /\ ~IsNaN(y) /\ x[1] * y[2] > y[1] * x[2]

RECURSIVE SumOver(_, _)
SumOver(f, S) ==
    IF S = {} THEN Whole(0)
    ELSE LET x == CHOOSE x \in S : TRUE
         IN  FracAdd(f[x], SumOver(f, S \ {x}))

\* pandas Series.mean() of the values f[x], x \in S: NaN on an empty selection
Mean(f, S) ==
    IF S = {} THEN NaN
    ELSE LET t == SumOver(f, S) IN Frac(t[1], t[2] * Cardinality(S))

RECURSIVE Flatten(_)
Flatten(ss) == IF ss = <<>> THEN <<>> ELSE Head(ss) \o Flatten(Tail(ss))

(* ------------------------------ inputs -------------------------------- *)
NoScore == -1
NoStat == -1

T(y, d, s) == [year |-> y, day |-> d, slot |-> s]

\* pandas .dt.date and .dt.year of a timestamp
DateOf(t) == [year |-> t.year, day |-> t.day]
YearOf(t) == t.year

\* one market object of the odds API response: a bookmaker's prices for one game
Market(t, h, a, site, mkt, outs) ==
    [match_time |-> t, home_team |-> h, away_team |-> a, site |-> site,
     market |-> mkt, outcomes |-> outs]

MarketDomain ==
    { Market(T(2024, 1, 0), "Oakland Athletics", "TeamB", "X", "h2h",
             {<<"Oakland Athletics", -150>>, <<"TeamB", 130>>, <<"Draw", 150>>}),
      Market(T(2024, 1, 0), "Oakland Athletics", "TeamB", "Y", "h2h",
             {<<"Oakland Athletics", -140>>, <<"TeamB", 140>>}),
      Market(T(2024, 1, 0), "Oakland Athletics", "TeamB", "Z", "h2h",
             {<<"Oakland Athletics", -150>>}),
      Market(T(2024, 1, 1), "Oakland Athletics", "TeamB", "Z", "h2h",
             {<<"TeamB", -150>>}),
      Market(T(2024, 1, 0), "Oakland Athletics", "TeamB", "W", "h2h",
             {<<"Oakland Athletics", 0>>, <<"TeamB", 150>>}),
      Market(T(2024, 1, 0), "Oakland Athletics", "TeamB", "X", "spreads",
             {<<"Oakland Athletics", 150>>, <<"TeamB", -150>>}),
      Market(T(2024, 2, 0), "Oakland Athletics", "TeamB", "Y", "h2h",
             {<<"Oakland Athletics", -150>>, <<"TeamB", 130>>}),
      Market(T(2024, 1, 0), "Athletics", "TeamB", "Y", "h2h",
             {<<"Athletics", -140>>, <<"TeamB", 140>>}),
      Market(T(2024, 1, 0), "Oakland Athletics", "TeamB", "V", "h2h",
             {<<"Athletics", 150>>, <<"Draw", 130>>}) }

Responses == {d \in SUBSET MarketDomain : Cardinality(d) <= MaxMarkets}

\* the games of one schedule file: the MLB API names a franchise one way per file
HomeNames == {"Athletics", "Oakland Athletics"}

GameDomain(cols, name) ==
    [date : {T(2024, 1, 1)},
     home : {name},
     away : {"TeamB"},
     score : IF cols = "scores" THEN {<<NoScore, NoScore>>, <<5, 3>>, <<2, 4>>}
             ELSE {<<NoScore, NoScore>>}]

\* rows of team_pitching_*.csv and team_batting_*.csv (the latter has no W, L)
PitchingRows ==
    << [Team |-> "Oakland Athletics", Season |-> 2023, W |-> 2, L |-> 1],
       [Team |-> "Oakland Athletics", Season |-> 2024, W |-> 1, L |-> 1],
       [Team |-> "TeamB", Season |-> 2023, W |-> 1, L |-> 2] >>

BattingRows ==
    << [Team |-> "Oakland Athletics", Season |-> 2023, W |-> NoStat, L |-> NoStat] >>

\* the rows of list whose positions are in I, in list order
Pick(list, I) ==
    [k \in 1..Cardinality(I) |->
            list[CHOOSE i \in I : Cardinality({j \in I : j < i}) = k - 1]]

(* ---------------------------- load_data_to_db -------------------------- *)
\* pd.concat([df_team_bat, df_team_pit], ignore_index=True)
ConcatTeam(bat, pit) == bat \o pit

LoadData ==
    /\ pc = "start"
    /\ \E cols \in {"basic", "scores"}, name \in HomeNames, n \in 0..MaxGames :
       \E g \in [1..n -> GameDomain(cols, name)] :
       \E bi \in SUBSET (1..Len(BattingRows)), pi \in SUBSET (1..Len(PitchingRows)) :
          /\ schedule' = [i \in 1..n |->
                 [gamePk |-> i, date |-> g[i].date, home |-> g[i].home,
                  away |-> g[i].away, home_score |-> g[i].score[1],
                  away_score |-> g[i].score[2]]]
          /\ sched_cols' = cols
          /\ team_stats' = ConcatTeam(Pick(BattingRows, bi), Pick(PitchingRows, pi))
    /\ tables' = tables \cup {"schedule", "team_stats"}
    /\ pc' = "loaded"
    /\ UNCHANGED <<odds_csv, odds, df_ml, game_features, features_csv, train_data,
                   y_classes, artifacts, written, error>>

(* ------------------------- collect_betting_odds ------------------------ *)
\* fetch_odds: one record per game x bookmaker x market x outcome
fetch_odds(data) ==
    UNION { { [match_time |-> m.match_time, home_team |-> m.home_team,
               away_team |-> m.away_team, site |-> m.site, market |-> m.market,
               outcome |-> o[1], odds |-> o[2]] : o \in m.outcomes } : m \in data }

\* main: an empty response saves no file
CollectOdds ==
    /\ pc = "loaded"
    /\ \E data \in Responses :
          odds_csv' = IF fetch_odds(data) = {} THEN odds_csv ELSE fetch_odds(data)
    /\ pc' = "collected"
    /\ UNCHANGED <<tables, schedule, sched_cols, team_stats, odds, df_ml,
                   game_features, features_csv, train_data, y_classes, artifacts,
                   written, error>>

(* ---------------------------- load_odds_to_db -------------------------- *)
\* main: returns early without a csv file, else replaces table odds
LoadOdds ==
    /\ pc = "collected"
    /\ IF odds_csv = {}
       THEN UNCHANGED <<tables, odds>>
       ELSE /\ odds' = odds_csv
            /\ tables' = tables \cup {"odds"}
    /\ pc' = "odds"
    /\ UNCHANGED <<schedule, sched_cols, team_stats, odds_csv, df_ml,
                   game_features, features_csv, train_data, y_classes, artifacts,
                   written, error>>

(* -------------------------- feature_engineering ------------------------ *)
TEAM_NAME_MAP == [n \in {"Athletics"} |-> "Oakland Athletics"]

\* Series.replace(TEAM_NAME_MAP)
Replace(name) == IF name \in DOMAIN TEAM_NAME_MAP THEN TEAM_NAME_MAP[name] ELSE name

\* mutant of amer_to_imp_prob: the negative branch forgotten
amer_to_imp_prob_unsigned(o) == Frac(100, Abs(o) + 100)

amer_to_imp_prob(o) ==
    IF o > 0 THEN Frac(100, o + 100) ELSE Frac(-o, -o + 100)

\* steps 1-3 on the schedule: rename, normalize names, match_date, Season, Prev_Season
\* mutant of PrevSeason: the same-season revision of the join
PrevSeasonSame(season) == season

PrevSeason(season) == season - 1

SchedFrame(sched) ==
    [i \in 1..Len(sched) |->
        [gamePk |-> sched[i].gamePk, date |-> sched[i].date,
         home_team |-> Replace(sched[i].home), away_team |-> Replace(sched[i].away),
         match_date |-> DateOf(sched[i].date), Season |-> YearOf(sched[i].date),
         Prev_Season |-> PrevSeason(YearOf(sched[i].date))]]

\* step 3-4 on the odds: match_date, the moneyline filter, imp_prob
\* mutant of MoneyLine: no market filter
MoneyLineAllMarkets(od) == od

MoneyLine(od) == {q \in od : q.market = "h2h"}

DfMl(od) ==
    { [match_time |-> q.match_time, home_team |-> q.home_team, away_team |-> q.away_team,
       site |-> q.site, market |-> q.market, outcome |-> q.outcome, odds |-> q.odds,
       match_date |-> DateOf(q.match_time), imp_prob |-> amer_to_imp_prob(q.odds)]
      : q \in MoneyLine(od) }

\* step 5: agg_odds applied to the group of key k = <<home_team, away_team, match_date>>
OddsCol(group) == [q \in group |-> Whole(q.odds)]
ImpCol(group) == [q \in group |-> q.imp_prob]

\* mutant of Side: no outcome filter
SideAll(group, team) == group

Side(group, team) == {q \in group : q.outcome = team}

ImpAvg(group, team) == Mean(ImpCol(group), Side(group, team))

agg_odds(group, k) ==
    [home_team |-> k[1], away_team |-> k[2], match_date |-> k[3],
     home_odds_avg |-> Mean(OddsCol(group), Side(group, k[1])),
     away_odds_avg |-> Mean(OddsCol(group), Side(group, k[2])),
     home_imp_avg |-> ImpAvg(group, k[1]),
     away_imp_avg |-> ImpAvg(group, k[2])]

GroupKeys(ml) == {<<q.home_team, q.away_team, q.match_date>> : q \in ml}

GroupOf(ml, k) ==
    {q \in ml : q.home_team = k[1] /\ q.away_team = k[2] /\ q.match_date = k[3]}

\* mutant of Agg: groups with an uncovered side dropped
AggBothSides(ml) ==
    {a \in {agg_odds(GroupOf(ml, k), k) : k \in GroupKeys(ml)} :
        ~IsNaN(a.home_odds_avg) /\ ~IsNaN(a.away_odds_avg)}

Agg(ml) == {agg_odds(GroupOf(ml, k), k) : k \in GroupKeys(ml)}

\* step 6: pd.merge(df_sched, agg, how="inner", on=[home_team, away_team, match_date])
MergeRow(g, a) ==
    [gamePk |-> g.gamePk, Season |-> g.Season, Prev_Season |-> g.Prev_Season,
     date |-> g.date, home_team |-> g.home_team, away_team |-> g.away_team,
     home_odds_avg |-> a.home_odds_avg, away_odds_avg |-> a.away_odds_avg,
     home_imp_avg |-> a.home_imp_avg, away_imp_avg |-> a.away_imp_avg]

Matches(g, agg) ==
    {a \in agg : a.home_team = g.home_team /\ a.away_team = g.away_team
                 /\ a.match_date = g.match_date}

MergeOdds(sf, agg) ==
    Flatten([i \in 1..Len(sf) |->
        IF Matches(sf[i], agg) = {} THEN <<>>
        ELSE <<MergeRow(sf[i], CHOOSE a \in Matches(sf[i], agg) : TRUE)>>])

\* step 7: ts["win_pct"] = W / (W + L); NaN for a NaN operand and for 0 / 0
WinPct(r) ==
    IF r.W = NoStat \/ r.L = NoStat \/ r.W + r.L = 0 THEN NaN ELSE Frac(r.W, r.W + r.L)

\* df.merge(wp, how="left", on=[<side>_team, "Prev_Season"]): the values joined to row
StatMatches(ts, team, season) ==
    LET Hit(r) == r.Team = team /\ r.Season = season
        m == SelectSeq(ts, Hit)
    IN  IF m = <<>> THEN <<NaN>> ELSE [j \in 1..Len(m) |-> WinPct(m[j])]

MergeWinPct(df, ts) ==
    LET withHome == Flatten([i \in 1..Len(df) |->
            LET w == StatMatches(ts, df[i].home_team, df[i].Prev_Season)
            IN  [j \in 1..Len(w) |-> [row |-> df[i], home_win_pct |-> w[j]]]])
    IN  Flatten([i \in 1..Len(withHome) |->
            LET w == StatMatches(ts, withHome[i].row.away_team, withHome[i].row.Prev_Season)
            IN  [j \in 1..Len(w) |->
                    [row |-> withHome[i].row, home_win_pct |-> withHome[i].home_win_pct,
                     away_win_pct |-> w[j]]]])

\* mutant of HomeFavorite: >= in place of >
HomeFavoriteOrTie(home_imp_avg, away_imp_avg) ==
    ~IsNaN(home_imp_avg) /\ ~IsNaN(away_imp_avg)
    /\ home_imp_avg[1] * away_imp_avg[2] >= away_imp_avg[1] * home_imp_avg[2]

\* step 8
HomeFavorite(home_imp_avg, away_imp_avg) == FracGt(home_imp_avg, away_imp_avg)

\* step 9: the final columns
FinalRow(x) ==
    [gamePk |-> x.row.gamePk, Season |-> x.row.Season, date |-> x.row.date,
     home_team |-> x.row.home_team, away_team |-> x.row.away_team,
     home_odds_avg |-> x.row.home_odds_avg, away_odds_avg |-> x.row.away_odds_avg,
     home_imp_avg |-> x.row.home_imp_avg, away_imp_avg |-> x.row.away_imp_avg,
     home_win_pct |-> x.home_win_pct, away_win_pct |-> x.away_win_pct,
     home_favorite |-> HomeFavorite(x.row.home_imp_avg, x.row.away_imp_avg)]

Features(sched, od, ts) ==
    LET m == MergeWinPct(MergeOdds(SchedFrame(sched), Agg(DfMl(od))), ts)
    IN  [i \in 1..Len(m) |-> FinalRow(m[i])]

\* the error of a run: the call that raised and the table its message names
NoError == [call |-> "", table |-> ""]

Raised(call, table) == [call |-> call, table |-> table]

\* the order in which main reads the raw tables
ReadOrder == <<"schedule", "odds", "team_stats">>

\* mutant of MissingTable: the store is not asked whether the table exists
MissingTableUnchecked(tb) == ""

\* read_sql_table raises ValueError("Table <name> not found") for the first table
\* in reading order that the store lacks; "" when all three exist
MissingTable(tb) ==
    IF \A i \in DOMAIN ReadOrder : ReadOrder[i] \in tb THEN ""
    ELSE ReadOrder[CHOOSE i \in DOMAIN ReadOrder :
                      /\ ReadOrder[i] \notin tb
                      /\ \A j \in 1..(i - 1) : ReadOrder[j] \in tb]

\* df_final.to_csv(csv_path, index=False): the file is rewritten
to_csv(df) == [exists |-> TRUE, rows |-> df]

\* mutant of to_sql: if_exists="append"
to_sql_append(old, df) == old \o df

\* df_final.to_sql("game_features", engine, if_exists="replace", index=False)
to_sql(old, df) == df

\* main: read_sql_table raises on a missing table; groupby.apply on an empty
\* moneyline frame returns no aggregate columns and reset_index raises; the csv
\* file is written before the table
FeatureEngineering ==
    /\ pc \in {"start", "loaded", "collected", "odds"}
    /\ IF MissingTable(tables) # ""
       THEN /\ error' = Raised("read_sql_table", MissingTable(tables))
            /\ UNCHANGED <<df_ml, game_features, features_csv, tables>>
            /\ pc' = "features_failed"
       ELSE IF MoneyLine(odds) = {}
       THEN /\ error' = Raised("reset_index", "")
            /\ UNCHANGED <<df_ml, game_features, features_csv, tables>>
            /\ pc' = "features_failed"
       ELSE /\ df_ml' = DfMl(odds)
            /\ features_csv' = to_csv(Features(schedule, odds, team_stats))
            /\ game_features' = to_sql(game_features, Features(schedule, odds, team_stats))
            /\ tables' = tables \cup {"game_features"}
            /\ error' = NoError
            /\ pc' = "features"
    /\ UNCHANGED <<schedule, sched_cols, team_stats, odds_csv, odds,
                   train_data, y_classes, artifacts, written>>

(* -------------------------- train_baseline_model ----------------------- *)
FeatureCols == {"home_odds_avg", "away_odds_avg", "home_imp_avg", "away_imp_avg"}

\* load_data: df_feat.merge(df_sched, on="gamePk", how="left"), then
\* home_win = (home_score > away_score).astype(int); a NULL score compares false
ScoreGt(h, a) == h # NoScore /\ a # NoScore /\ h > a

HomeWin(h, a) == IF ScoreGt(h, a) THEN 1 ELSE 0

ScoresOf(sched, pk) ==
    LET Hit(g) == g.gamePk = pk
        m == SelectSeq(sched, Hit)
    IN  IF m = <<>> THEN <<[home_score |-> NoScore, away_score |-> NoScore]>> ELSE m

load_data(gf, sched) ==
    Flatten([i \in 1..Len(gf) |->
        LET m == ScoresOf(sched, gf[i].gamePk)
        IN  [j \in 1..Len(m) |->
                [gamePk |-> gf[i].gamePk,
                 home_odds_avg |-> gf[i].home_odds_avg, away_odds_avg |-> gf[i].away_odds_avg,
                 home_imp_avg |-> gf[i].home_imp_avg, away_imp_avg |-> gf[i].away_imp_avg,
                 home_favorite |-> gf[i].home_favorite,
                 home_score |-> m[j].home_score, away_score |-> m[j].away_score,
                 home_win |-> HomeWin(m[j].home_score, m[j].away_score)]]])

\* df.dropna(subset=features + ["home_win"]): home_favorite and home_win are never null
Complete(r) == \A c \in FeatureCols : ~IsNaN(r[c])

DropNa(df) == SelectSeq(df, Complete)

\* train_test_split(test_size=0.3): n_test = ceil(0.3 * n), n_train = n - n_test
NTest(n) == (3 * n + 9) \div 10

Count(df, c) == Cardinality({i \in DOMAIN df : df[i].home_win = c})

NoSplit == [train |-> {}, test |-> {}]

\* the classes of y_train and y_test when the seeded shuffle puts j of the
\* home wins among the NTest(n) test rows
SplitClasses(df, j) ==
    LET k == NTest(Len(df))
    IN  [train |-> {c \in {0, 1} : (IF c = 1 THEN Count(df, 1) - j
                                    ELSE Count(df, 0) - (k - j)) > 0},
         test  |-> {c \in {0, 1} : (IF c = 1 THEN j ELSE k - j) > 0}]

\* the numbers of home wins a test partition of NTest(n) rows can hold
TestWins(df) ==
    {j \in 0..NTest(Len(df)) :
        j <= Count(df, 1) /\ NTest(Len(df)) - j <= Count(df, 0)}

\* fit needs two classes in y_train, roc_auc_score two classes in y_test
RunSucceeds(df, j) ==
    /\ Cardinality(SplitClasses(df, j).train) = 2
    /\ Cardinality(SplitClasses(df, j).test) = 2

ModelFiles == {"roc_curve.png", "calibration_curve.png", "baseline_logreg.joblib"}

\* mutant of SplitEmpty: the split accepts an empty train set
SplitNeverEmpty(n) == FALSE

\* train_test_split raises ValueError("With n_samples=.., .. the resulting train set
\* will be empty") when no row is left for the train set
SplitEmpty(n) == n - NTest(n) <= 0

\* the call that raises after the split, "" when none does; roc_auc_score on a
\* single-class y_test raises in some scikit-learn releases (strict) and returns
\* NaN with a warning in others
TrainError(df, j, strict) ==
    IF Cardinality(SplitClasses(df, j).train) < 2 THEN "fit"
    ELSE IF strict /\ ~RunSucceeds(df, j) THEN "roc_auc_score"
    ELSE ""

\* the two savefig calls, then joblib.dump
WriteOrder == <<"roc_curve.png", "calibration_curve.png", "baseline_logreg.joblib">>

\* mutant of Written: the pipeline is dumped as soon as it is fitted
WrittenAfterFit(err) ==
    IF err = "fit" THEN <<>>
    ELSE IF err = "" THEN <<WriteOrder[3], WriteOrder[1], WriteOrder[2]>>
    ELSE <<WriteOrder[3]>>

\* the files a run writes: all three when no call raised, none otherwise
Written(err) == IF err = "" THEN WriteOrder ELSE <<>>

Range(seq) == {seq[i] : i \in DOMAIN seq}

\* main: load_data raises when game_features is missing or schedule has no score
\* columns; train_test_split raises on an empty train set; fit and roc_auc_score
\* raise on a single class; the files are written after the metrics
Train ==
    /\ pc \in {"features", "features_failed"}
    /\ IF "game_features" \notin tables \/ sched_cols # "scores"
       THEN /\ error' = Raised("read_sql", IF "game_features" \notin tables
                                           THEN "game_features" ELSE "schedule")
            /\ written' = <<>>
            /\ UNCHANGED <<train_data, y_classes, artifacts>>
            /\ pc' = "train_failed"
       ELSE LET df == DropNa(load_data(game_features, schedule))
            IN  /\ train_data' = df
                /\ IF SplitEmpty(Len(df))
                   THEN /\ y_classes' = NoSplit
                        /\ error' = Raised("train_test_split", "")
                        /\ written' = <<>>
                        /\ artifacts' = artifacts
                        /\ pc' = "train_failed"
                   ELSE \E j \in TestWins(df), strict \in BOOLEAN :
                        LET err == TrainError(df, j, strict)
                        IN  /\ y_classes' = SplitClasses(df, j)
                            /\ error' = Raised(err, "")
                            /\ written' = Written(err)
                            /\ artifacts' = artifacts \cup Range(Written(err))
                            /\ pc' = IF err = "" THEN "trained" ELSE "train_failed"
    /\ UNCHANGED <<tables, schedule, sched_cols, team_stats, odds_csv, odds,
                   df_ml, game_features, features_csv>>

\* an empty store, no processed file, no model file
InitFresh ==
    /\ tables = {}
    /\ schedule = <<>>
    /\ sched_cols = "basic"
    /\ team_stats = <<>>
    /\ odds_csv = {}
    /\ odds = {}
    /\ df_ml = {}
    /\ game_features = <<>>
    /\ features_csv = [exists |-> FALSE, rows |-> <<>>]
    /\ train_data = <<>>
    /\ y_classes = NoSplit
    /\ artifacts = {}
    /\ written = <<>>
    /\ error = NoError
    /\ pc = "start"

\* what an earlier pass of the four scripts left in the store and on disk
PriorSchedule ==
    [i \in 1..3 |->
        [gamePk |-> i, date |-> T(2024, 1, 1), home |-> "Oakland Athletics",
         away |-> "TeamB", home_score |-> IF i = 3 THEN 2 ELSE 5,
         away_score |-> IF i = 3 THEN 4 ELSE 3]]

PriorStats == ConcatTeam(<<>>, PitchingRows)

PriorOdds ==
    fetch_odds({Market(T(2024, 1, 0), "Oakland Athletics", "TeamB", "X", "h2h",
                       {<<"Oakland Athletics", -150>>, <<"TeamB", 130>>})})

PriorFeatures == Features(PriorSchedule, PriorOdds, PriorStats)

\* the scripts are run again on a store that an earlier pass filled: schedule and
\* team_stats are as loaded, game_features and the files are that pass's outputs
InitRerun ==
    /\ tables = {"schedule", "team_stats", "odds", "game_features"}
    /\ schedule = PriorSchedule
    /\ sched_cols = "scores"
    /\ team_stats = PriorStats
    /\ odds_csv = PriorOdds
    /\ odds = PriorOdds
    /\ df_ml = {}
    /\ game_features = PriorFeatures
    /\ features_csv = to_csv(PriorFeatures)
    /\ train_data = <<>>
    /\ y_classes = NoSplit
    /\ artifacts = ModelFiles
    /\ written = <<>>
    /\ error = NoError
    /\ pc = "loaded"

Init == InitFresh \/ InitRerun

Next == LoadData \/ CollectOdds \/ LoadOdds \/ FeatureEngineering \/ Train

Spec == Init /\ [][Next]_vars
(* ------------------------------- claims -------------------------------- *)
\* a feature-engineering run has just completed; the inputs it read are in place
FeaturesDone == pc = "features"

Rows == {game_features[i] : i \in DOMAIN game_features}

Games == {schedule[i] : i \in DOMAIN schedule}

RowsOf(g) == {i \in DOMAIN game_features : game_features[i].gamePk = g.gamePk}

\* the moneyline quotes of table odds in the group <<home, away, day>>
Quotes(home, away, day) ==
    {q \in odds : q.market = "h2h" /\ q.home_team = home /\ q.away_team = away
                  /\ DateOf(q.match_time) = day}

GameQuotes(g) == Quotes(Replace(g.home), Replace(g.away), DateOf(g.date))

RowQuotes(r) == Quotes(r.home_team, r.away_team, DateOf(r.date))

Outcome(Q, team) == {q \in Q : q.outcome = team}

RECURSIVE SumOdds(_)
SumOdds(Q) ==
    IF Q = {} THEN 0
    ELSE LET q == CHOOSE q \in Q : TRUE IN q.odds + SumOdds(Q \ {q})

\* avg is the arithmetic mean of the odds of Q, missing when Q is empty
IsMeanOdds(avg, Q) ==
    IF Q = {} THEN IsNaN(avg)
    ELSE ~IsNaN(avg) /\ avg[1] * Cardinality(Q) = avg[2] * SumOdds(Q)

\* the imp_prob column of the quotes Q, over the common denominator DenProd(P)
QuoteOf(r) ==
    [match_time |-> r.match_time, home_team |-> r.home_team, away_team |-> r.away_team,
     site |-> r.site, market |-> r.market, outcome |-> r.outcome, odds |-> r.odds]

ImpOf(Q) == {r \in df_ml : QuoteOf(r) \in Q}

RECURSIVE DenProd(_)
DenProd(P) ==
    IF P = {} THEN 1
    ELSE LET r == CHOOSE r \in P : TRUE IN r.imp_prob[2] * DenProd(P \ {r})

RECURSIVE NumSum(_)
NumSum(P) ==
    IF P = {} THEN 0
    ELSE LET r == CHOOSE r \in P : TRUE
         IN  r.imp_prob[1] * DenProd(P \ {r}) + r.imp_prob[2] * NumSum(P \ {r})

IsMeanImp(avg, Q) ==
    IF Q = {} THEN IsNaN(avg)
    ELSE LET P == ImpOf(Q)
         IN  /\ ~IsNaN(avg)
             /\ Cardinality(P) = Cardinality(Q)
             /\ avg[1] * Cardinality(Q) * DenProd(P) = avg[2] * NumSum(P)

C2_BothSidesQuoted ==
    FeaturesDone => \A r \in Rows :
        /\ Outcome(RowQuotes(r), r.home_team) # {}
        /\ Outcome(RowQuotes(r), r.away_team) # {}

\* C2 amended: every row of game_features belongs to a game with at least one
\* moneyline quote in its (home_team, away_team, date) group; a game whose group
\* has quotes for one side only, or for neither side, still has a row, and the
\* averages of a side are missing exactly when that side has no quote.
C2_GroupQuoted ==
    FeaturesDone =>
        /\ \A r \in Rows :
              LET Q == RowQuotes(r)
                  noHome == Outcome(Q, r.home_team) = {}
                  noAway == Outcome(Q, r.away_team) = {}
              IN  /\ Q # {}
                  /\ IsNaN(r.home_odds_avg) <=> noHome
                  /\ IsNaN(r.home_imp_avg) <=> noHome
                  /\ IsNaN(r.away_odds_avg) <=> noAway
                  /\ IsNaN(r.away_imp_avg) <=> noAway
        /\ \A g \in Games : GameQuotes(g) # {} => RowsOf(g) # {}

\* a row whose group has home quotes and no away quote
C2_Witness ==
    /\ FeaturesDone
    /\ \E r \in Rows :
          /\ Outcome(RowQuotes(r), r.home_team) # {}
          /\ Outcome(RowQuotes(r), r.away_team) = {}
          /\ IsNaN(r.away_imp_avg)

\* C3 as stated: every schedule game with a matching odds group appears in
\* game_features exactly once, whatever team_stats contains.
C3_ExactlyOnce ==
    FeaturesDone => \A g \in Games : GameQuotes(g) # {} => Cardinality(RowsOf(g)) = 1

StatRows(team, season) ==
    {j \in DOMAIN team_stats : team_stats[j].Team = team /\ team_stats[j].Season = season}

\* pct is wins / (wins + losses) of the team_stats row st (missing when undefined)
IsWinPct(pct, st) ==
    IF st.W = NoStat \/ st.L = NoStat \/ st.W + st.L = 0 THEN IsNaN(pct)
    ELSE ~IsNaN(pct) /\ pct[1] * (st.W + st.L) = pct[2] * st.W

IsPriorWinPct(pct, team, season) ==
    IF StatRows(team, season - 1) = {} THEN IsNaN(pct)
    ELSE \E j \in StatRows(team, season - 1) : IsWinPct(pct, team_stats[j])

\* C4: for every row of game_features with season S, home_win_pct and away_win_pct
\* are wins/(wins+losses) of a team_stats row of that team for season S-1, or
\* missing when team_stats has no such row.
C4_PriorSeasonWinPct ==
    FeaturesDone => \A r \in Rows :
        /\ IsPriorWinPct(r.home_win_pct, r.home_team, r.Season)
        /\ IsPriorWinPct(r.away_win_pct, r.away_team, r.Season)

\* a row that takes 2/3 from season S-1 while season S holds another value, and a
\* row whose team has only a season S row
C4_Witness ==
    /\ FeaturesDone
    /\ \E r \in Rows :
          /\ r.home_win_pct = <<2, 3>>
          /\ ~IsNaN(r.away_win_pct)
          /\ \E j \in StatRows(r.home_team, r.Season) :
                ~IsWinPct(r.home_win_pct, team_stats[j])

\* C5 as stated: the names of both relations pass through the name mapping, so a
\* game and a moneyline quote whose names the mapping sends to the same strings
\* (same date) are joined into a feature row.
C5_BothSidesNormalized ==
    FeaturesDone => \A g \in Games : \A q \in odds :
        ( /\ q.market = "h2h"
          /\ Replace(q.home_team) = Replace(g.home)
          /\ Replace(q.away_team) = Replace(g.away)
          /\ DateOf(q.match_time) = DateOf(g.date) ) => RowsOf(g) # {}

\* C6 as stated: a moneyline quote with odds 0 is skipped: it contributes to
\* neither side's mean odds nor mean implied probability.
NonZero(Q) == {q \in Q : q.odds # 0}

C6_ZeroOddsSkipped ==
    FeaturesDone => \A r \in Rows :
        /\ IsMeanOdds(r.home_odds_avg, NonZero(Outcome(RowQuotes(r), r.home_team)))
        /\ IsMeanOdds(r.away_odds_avg, NonZero(Outcome(RowQuotes(r), r.away_team)))
        /\ IsMeanImp(r.home_imp_avg, NonZero(Outcome(RowQuotes(r), r.home_team)))
        /\ IsMeanImp(r.away_imp_avg, NonZero(Outcome(RowQuotes(r), r.away_team)))

\* C7 as stated: every row the trainer fits and evaluates on belongs to a game with
\* a final score in schedule, and its target is 1 if home_score > away_score else 0.
C7_UnscoredExcluded ==
    pc = "trained" => \A i \in DOMAIN train_data :
        \E g \in Games :
            /\ g.gamePk = train_data[i].gamePk
            /\ g.home_score # NoScore
            /\ g.away_score # NoScore
            /\ train_data[i].home_win = IF g.home_score > g.away_score THEN 1 ELSE 0

\* C8: per group of moneyline quotes, home_odds_avg and home_imp_avg are the
\* arithmetic means of the odds and of the per-quote implied probabilities of
\* exactly the quotes whose outcome is home_team (likewise away), missing for a side
\* without quotes; home quotes -150, -140 and away quotes 130, 140 give -145, 135,
\* 71/120 and 235/552.
OddsOf(Q) == {q.odds : q \in Q}

C8_SideMeans ==
    FeaturesDone => \A r \in Rows :
        LET H == Outcome(RowQuotes(r), r.home_team)
            A == Outcome(RowQuotes(r), r.away_team)
        IN  /\ IsMeanOdds(r.home_odds_avg, H)
            /\ IsMeanOdds(r.away_odds_avg, A)
            /\ IsMeanImp(r.home_imp_avg, H)
            /\ IsMeanImp(r.away_imp_avg, A)
            /\ ( /\ Cardinality(H) = 2 /\ OddsOf(H) = {-150, -140}
                 /\ Cardinality(A) = 2 /\ OddsOf(A) = {130, 140} )
               => /\ r.home_odds_avg = <<-145, 1>>
                  /\ r.away_odds_avg = <<135, 1>>
                  /\ r.home_imp_avg = <<71, 120>>
                  /\ r.away_imp_avg = <<235, 552>>

\* the example group, and a group holding a quote for neither team
C8_Witness ==
    /\ FeaturesDone
    /\ \E r \in Rows :
          /\ OddsOf(Outcome(RowQuotes(r), r.home_team)) = {-150, -140}
          /\ OddsOf(Outcome(RowQuotes(r), r.away_team)) = {130, 140}
          /\ r.home_imp_avg = <<71, 120>>
          /\ \E q \in RowQuotes(r) : q.outcome \notin {r.home_team, r.away_team}

\* C9: home_favorite is true exactly when both implied averages are present and
\* home_imp_avg is strictly greater than away_imp_avg.
C9_StrictFavorite ==
    FeaturesDone => \A r \in Rows :
        r.home_favorite <=>
            ( /\ ~IsNaN(r.home_imp_avg)
              /\ ~IsNaN(r.away_imp_avg)
              /\ r.home_imp_avg[1] * r.away_imp_avg[2]
                    > r.away_imp_avg[1] * r.home_imp_avg[2] )

\* a tie, which is not a favorite
C9_Witness ==
    /\ FeaturesDone
    /\ \E r \in Rows :
          /\ ~IsNaN(r.home_imp_avg)
          /\ r.home_imp_avg = r.away_imp_avg
          /\ ~r.home_favorite

\* C10: for every nonzero odds value o the converter returns 100/(o+100) when o > 0
\* and -o/(-o+100) when o < 0, strictly between 0 and 1; 150 gives 2/5, -150 gives 3/5.
C10_ImpliedProbability ==
    \A r \in df_ml : r.odds # 0 =>
        /\ 0 < r.imp_prob[1] /\ r.imp_prob[1] < r.imp_prob[2]
        /\ r.odds > 0 => r.imp_prob[1] * (r.odds + 100) = r.imp_prob[2] * 100
        /\ r.odds < 0 => r.imp_prob[1] * (100 - r.odds) = r.imp_prob[2] * (0 - r.odds)
        /\ r.odds = 150 => r.imp_prob = <<2, 5>>
        /\ r.odds = -150 => r.imp_prob = <<3, 5>>

\* both example quotes converted in one run
C10_Witness ==
    /\ \E r \in df_ml : r.odds = 150 /\ r.imp_prob = <<2, 5>>
    /\ \E r \in df_ml : r.odds = -150 /\ r.imp_prob = <<3, 5>>

\* the files of an earlier pass are on disk: the scripts are being run again
EarlierPass == ModelFiles \subseteq artifacts /\ written = <<>>

\* C11: after a feature-engineering run that completed, table game_features holds
\* exactly the rows computed from the schedule, odds and team_stats that run read,
\* and no row of an earlier run; after a run that aborted it still holds the output
\* of the most recent completed run (none in an empty store); hence a second run on
\* identical inputs leaves identical contents.
C11_TableReplaced ==
    /\ pc = "features" =>
          /\ "game_features" \in tables
          /\ game_features = Features(schedule, odds, team_stats)
          /\ (schedule = PriorSchedule /\ odds = PriorOdds /\ team_stats = PriorStats)
                => game_features = PriorFeatures
    /\ pc = "features_failed" =>
          IF "game_features" \in tables THEN game_features = PriorFeatures
          ELSE game_features = <<>>

\* a run over changed odds has replaced the earlier output: no earlier row is left
C11_Witness ==
    /\ pc = "features"
    /\ EarlierPass
    /\ schedule = PriorSchedule
    /\ odds # PriorOdds
    /\ Len(game_features) < Len(PriorFeatures)
    /\ \A i \in DOMAIN game_features :
          \A k \in DOMAIN PriorFeatures : game_features[i] # PriorFeatures[k]

\* the trainer has run
TrainerRan == pc \in {"trained", "train_failed"}

\* C12: when the trainer's missing-value filter leaves zero rows (game_features
\* empty, or every row dropped), the run fails in train_test_split, whose error
\* reports the empty set, before any split or fit, and writes no file.
C12_EmptyFeatureSetFatal ==
    (TrainerRan /\ error.call # "read_sql" /\ train_data = <<>>) =>
        /\ pc = "train_failed"
        /\ error.call = "train_test_split"
        /\ y_classes = NoSplit
        /\ written = <<>>

\* every row of a non-empty game_features was dropped by the filter
C12_Witness ==
    /\ pc = "train_failed"
    /\ error.call = "train_test_split"
    /\ game_features # <<>>
    /\ train_data = <<>>
    /\ written = <<>>

\* a feature-engineering run: one step of the script from any stage before it
FeRun ==
    /\ pc \in {"start", "loaded", "collected", "odds"}
    /\ pc' \in {"features", "features_failed"}

RequiredTables == {"schedule", "odds", "team_stats"}

\* C13: a feature-engineering run on a store that lacks schedule, odds or team_stats
\* aborts with the error of read_sql_table naming a missing table, and leaves table
\* game_features and the features csv file exactly as they were.
C13_MissingRelationAborts ==
    [][ (FeRun /\ RequiredTables \ tables # {}) =>
            /\ pc' = "features_failed"
            /\ error'.call = "read_sql_table"
            /\ error'.table \in RequiredTables \ tables
            /\ tables' = tables
            /\ game_features' = game_features
            /\ features_csv' = features_csv ]_vars

\* schedule and team_stats were loaded, odds never was: the run named odds
C13_Witness ==
    /\ pc = "features_failed"
    /\ error = Raised("read_sql_table", "odds")
    /\ "schedule" \in tables
    /\ "odds" \notin tables
    /\ "game_features" \notin tables
    /\ ~features_csv.exists

ModelFile == "baseline_logreg.joblib"

\* C14: a trainer run writes the model file last, after both images and only when
\* fit and the metrics raised nothing; a run that failed wrote no model file, so
\* the model file of an earlier run stays as it was.
C14_ModelWrittenLast ==
    TrainerRan =>
        /\ ModelFile \in Range(written) =>
              /\ pc = "trained"
              /\ error = NoError
              /\ Cardinality(y_classes.train) = 2
              /\ Len(written) = 3
              /\ written[3] = ModelFile
              /\ {written[1], written[2]} = {"roc_curve.png", "calibration_curve.png"}
        /\ pc = "trained" => ModelFile \in Range(written)
        /\ pc = "train_failed" => written = <<>>

\* roc_auc_score raised on a single-class test split; the earlier model file remains
C14_Witness ==
    /\ pc = "train_failed"
    /\ error.call = "roc_auc_score"
    /\ Cardinality(y_classes.train) = 2
    /\ Cardinality(y_classes.test) = 1
    /\ written = <<>>
    /\ ModelFile \in artifacts
====
